---- MODULE Spec2Model ----
(***************************************************************************)
(* Model of convert.py: the RIS reader, the per-dialect mapping and        *)
(* cleaning functions, the transform pipeline and a conversion run.        *)
(*                                                                         *)
(* A Python str is a sequence of one-character strings, so that slicing,   *)
(* strip, split, replace and endswith are computed character by character. *)
(* A Python dict is a function; raw (source) keys are character sequences, *)
(* canonical (BibTeX) keys are atoms, as the code only compares them.      *)
(***************************************************************************)
EXTENDS Integers, Sequences, FiniteSets, TLC

VARIABLES
    pc,            \* position of the run: main, the stages of transform's loop, the write, the end
    dialect,       \* args.format
    exists,        \* os.path.exists(args.file)
    syntax_yaml,   \* syntax_mapping.yaml[dialect], as get_syntax_map returns it
    semantic_yaml, \* semantic_mapping.yaml[dialect], as get_semantic_map returns it
    file,          \* the input: the rows csv.DictReader delivers, or the lines of the RIS file
    fpos,          \* the file pointer: how many rows or lines have been consumed
    count,         \* enumerate's counter: the records the reader has delivered
    i,             \* the loop variable i of transform
    entry,         \* the record travelling through the stages of one loop iteration
    database,      \* database.entries
    bibfile,       \* the output file: "untouched", or "written"
    written,       \* what was written to the output file
    error,         \* the exception that ended the run, or "none"
    input,         \* argument of a function applied on its own
    output         \* its result

vars == <<pc, dialect, exists, syntax_yaml, semantic_yaml, file, fpos, count, i, entry,
          database, bibfile, written, error, input, output>>

-----------------------------------------------------------------------------
(* Bounds of the model *)

MaxLines == 4       \* lines of a RIS file
MaxRows == 2        \* rows of a CSV file
MaxRisLines == 3    \* lines handed to ris_to_dict on its own
MaxAuthors == 3     \* authors of a Scopus author value
MaxIds == 3         \* semicolon-separated identifiers of a PubMed doi value

-----------------------------------------------------------------------------
(* Python str and dict primitives *)

Whitespace == {" ", "\n"}

EmptyDict == [k \in {} |-> <<>>]

\* d[key] = value
DictSet(d, key, value) ==
    [k \in DOMAIN d \cup {key} |-> IF k = key THEN value ELSE d[k]]

\* d.pop(key, None)
DictPop(d, key) == [k \in DOMAIN d \ {key} |-> d[k]]

Min(a, b) == IF a < b THEN a ELSE b

\* s[a:b] for 0 <= a, 0 <= b: the bounds are clamped to the length
Slice(s, a, b) == SubSeq(s, Min(a, Len(s)) + 1, Min(b, Len(s)))

\* s[a:]
SliceFrom(s, a) == SubSeq(s, Min(a, Len(s)) + 1, Len(s))

RECURSIVE lstrip(_)
lstrip(s) ==
    IF s # <<>> /\ Head(s) \in Whitespace THEN lstrip(Tail(s)) ELSE s

RECURSIVE rstrip(_)
rstrip(s) ==
    IF s # <<>> /\ s[Len(s)] \in Whitespace THEN rstrip(SubSeq(s, 1, Len(s) - 1)) ELSE s

\* s.strip()
strip(s) == rstrip(lstrip(s))

\* s.startswith(p)
startswith(s, p) == Len(s) >= Len(p) /\ SubSeq(s, 1, Len(p)) = p

\* s.endswith(p)
endswith(s, p) == Len(s) >= Len(p) /\ SubSeq(s, Len(s) - Len(p) + 1, Len(s)) = p

\* ch in s
contains(s, ch) == \E k \in 1..Len(s) : s[k] = ch

\* s.split(sep): cut at every occurrence of sep, scanning left to right
RECURSIVE split_from(_, _, _)
split_from(s, sep, acc) ==
    IF s = <<>> THEN <<acc>>
    ELSE IF startswith(s, sep) THEN <<acc>> \o split_from(SliceFrom(s, Len(sep)), sep, <<>>)
    ELSE split_from(Tail(s), sep, Append(acc, Head(s)))

split(s, sep) == split_from(s, sep, <<>>)

\* sep.join(parts)
RECURSIVE join(_, _)
join(sep, parts) ==
    IF parts = <<>> THEN <<>>
    ELSE IF Len(parts) = 1 THEN parts[1]
    ELSE parts[1] \o sep \o join(sep, Tail(parts))

\* s.replace(old, new)
replace(s, old, new) == join(new, split(s, old))

\* str(n) for n >= 0
RECURSIVE str(_)
str(n) ==
    LET digit == <<"0", "1", "2", "3", "4", "5", "6", "7", "8", "9">>
    IN IF n < 10 THEN <<digit[n + 1]>> ELSE str(n \div 10) \o <<digit[(n % 10) + 1]>>

-----------------------------------------------------------------------------
(* String literals of the code *)

SemiSpace == <<";", " ">>
AndSep == <<" ", "a", "n", "d", " ">>
DoiTag == <<"[", "d", "o", "i", "]">>
NoAuthor == <<"[","N","o"," ","a","u","t","h","o","r"," ","n","a","m","e"," ",
              "a","v","a","i","l","a","b","l","e","]">>
JournalArticle == <<"J","o","u","r","n","a","l"," ","A","r","t","i","c","l","e">>
article == <<"a","r","t","i","c","l","e">>
PT == <<"P", "T">>

DialectName(d) ==
    CASE d = "ieee" -> <<"i","e","e","e">>
      [] d = "scopus" -> <<"s","c","o","p","u","s">>
      [] d = "pubmed" -> <<"p","u","b","m","e","d">>
      [] OTHER -> <<"?">>

\* The outcome of a call: a value, or the exception it raised
Ok(v) == [err |-> "none", val |-> v]
Raise(e) == [err |-> e, val |-> EmptyDict]

-----------------------------------------------------------------------------
(* RISFileReader *)

None == <<"None">>

KeyEnd == 4        \* line[0:4]
ValueStart == 6    \* line[6:]

\* The mutant: a continuation line does not move, and a keyed line does not set, oldkey
ris_step_keeps_oldkey(acc, line) ==
    LET key == strip(Slice(line, 0, KeyEnd))
        value == strip(SliceFrom(line, ValueStart))
        content == acc.content
    IN IF acc.err # "none" THEN acc
       ELSE IF key = <<>>
       THEN IF acc.oldkey \in DOMAIN content
            THEN [acc EXCEPT !.content =
                     DictSet(content, acc.oldkey, content[acc.oldkey] \o <<" ">> \o value)]
            ELSE [acc EXCEPT !.err = "KeyError"]
       ELSE [acc EXCEPT
                !.content = IF key \in DOMAIN content
                            THEN DictSet(content, key, content[key] \o SemiSpace \o value)
                            ELSE DictSet(content, key, value),
                !.oldkey = IF acc.oldkey = None THEN key ELSE acc.oldkey]

\* One iteration of ris_to_dict's loop over the lines
ris_step(acc, line) ==
    LET key == strip(Slice(line, 0, KeyEnd))
        value == strip(SliceFrom(line, ValueStart))
        content == acc.content
    IN IF acc.err # "none" THEN acc
       ELSE IF key = <<>>
       THEN IF acc.oldkey \in DOMAIN content
            THEN [acc EXCEPT !.content =
                     DictSet(content, acc.oldkey, content[acc.oldkey] \o <<" ">> \o value)]
            ELSE [acc EXCEPT !.err = "KeyError"]
       ELSE [acc EXCEPT
                !.content = IF key \in DOMAIN content
                            THEN DictSet(content, key, content[key] \o SemiSpace \o value)
                            ELSE DictSet(content, key, value),
                !.oldkey = key]

RECURSIVE ris_loop(_, _)
ris_loop(acc, lines) ==
    IF lines = <<>> THEN acc ELSE ris_loop(ris_step(acc, Head(lines)), Tail(lines))

ris_to_dict(lines) ==
    LET acc == ris_loop([content |-> EmptyDict, oldkey |-> None, err |-> "none"], lines)
    IN IF acc.err = "none" THEN Ok(acc.content) ELSE Raise(acc.err)

-----------------------------------------------------------------------------
(* The mapping stages *)

\* The rules of a syntax map in table order: each list item is a mapping, whose
\* items are taken in their order
RECURSIVE rules_of(_)
rules_of(syntax_map) ==
    IF syntax_map = <<>> THEN <<>> ELSE Head(syntax_map) \o rules_of(Tail(syntax_map))

\* The mutant: a canonical key already set is not overwritten
apply_rule_first_wins(e, rule, row) ==
    IF rule[1] \notin DOMAIN row \/ row[rule[1]] = <<>> \/ rule[2] \in DOMAIN e
    THEN e
    ELSE DictSet(e, rule[2], row[rule[1]])

\* The body of schema_map's loops for one rule <<key, bib_key>>
apply_rule(e, rule, row) ==
    IF rule[1] \notin DOMAIN row \/ row[rule[1]] = <<>>
    THEN e
    ELSE DictSet(e, rule[2], row[rule[1]])

RECURSIVE apply_rules(_, _, _)
apply_rules(e, rules, row) ==
    IF rules = <<>> THEN e
    ELSE apply_rules(apply_rule(e, Head(rules), row), Tail(rules), row)

\* The mutant: the index counted from 1
entry_id_from_one(d, n) == DialectName(d) \o <<"_">> \o str(n + 1)

\* f"{dialect}_{i}"
entry_id(d, n) == DialectName(d) \o <<"_">> \o str(n)

schema_map(n, row, d, syntax_map) ==
    apply_rules([k \in {"ID"} |-> entry_id(d, n)], rules_of(syntax_map), row)

\* The mutant: a value the map does not know is kept, as semantic_map[key].get(value, value)
semantic_map_default(e, semmap) ==
    LET keys == DOMAIN e \cap DOMAIN semmap
    IN Ok([k \in DOMAIN e |->
              IF k \in keys /\ e[k] \in DOMAIN semmap[k] THEN semmap[k][e[k]] ELSE e[k]])

semantic_map(e, semmap) ==
    LET keys == DOMAIN e \cap DOMAIN semmap
    IN IF \E k \in keys : e[k] \notin DOMAIN semmap[k]
       THEN Raise("KeyError")
       ELSE Ok([k \in DOMAIN e |-> IF k \in keys THEN semmap[k][e[k]] ELSE e[k]])

-----------------------------------------------------------------------------
(* The cleaning functions *)

ieee_clean_entry(e) ==
    IF "author" \in DOMAIN e
    THEN [e EXCEPT !["author"] = replace(e["author"], SemiSpace, AndSep)]
    ELSE e

RECURSIVE scopus_loop(_, _, _)
scopus_loop(author_split, k, names) ==
    IF k < Len(author_split) - 1
    THEN LET last_name == author_split[k + 1]
             first_name == author_split[k + 2]
         IN IF ~contains(first_name, ".")
            THEN scopus_loop(author_split, k + 1, Append(names, strip(last_name)))
            ELSE scopus_loop(author_split, k + 2,
                             Append(names, strip(last_name) \o <<",", " ">> \o strip(first_name)))
    ELSE names

scopus_author_canonicalize(authors) ==
    IF authors = NoAuthor THEN None
    ELSE join(AndSep, scopus_loop(split(authors, <<",">>), 0, <<>>))

scopus_clean_entry(e) ==
    IF "author" \in DOMAIN e
    THEN LET author == scopus_author_canonicalize(e["author"])
         IN IF author = None THEN DictPop(e, "author")
            ELSE [e EXCEPT !["author"] = author]
    ELSE e

DoiTagLen == 5     \* article_id.strip()[:-5]
YearLen == 4       \* entry["year"][0:4]

\* The mutant: the first token ending in "[doi]" is taken and the scan stops
RECURSIVE doi_loop_first(_, _)
doi_loop_first(ids, doi) ==
    IF ids = <<>> THEN doi
    ELSE LET article_id == strip(Head(ids))
         IN IF endswith(article_id, DoiTag)
            THEN strip(Slice(article_id, 0, Len(article_id) - DoiTagLen))
            ELSE doi_loop_first(Tail(ids), doi)

\* The loop over entry["doi"].split(";"): the last token ending in "[doi]" sets doi
RECURSIVE doi_loop(_, _)
doi_loop(ids, doi) ==
    IF ids = <<>> THEN doi
    ELSE LET article_id == strip(Head(ids))
         IN doi_loop(Tail(ids),
                     IF endswith(article_id, DoiTag)
                     THEN strip(Slice(article_id, 0, Len(article_id) - DoiTagLen))
                     ELSE doi)

pubmed_clean_doi(e) ==
    IF "doi" \in DOMAIN e
    THEN LET doi == doi_loop(split(e["doi"], <<";">>), None)
         IN IF doi # None /\ doi # <<>>
            THEN [e EXCEPT !["doi"] = doi]
            ELSE DictPop(e, "doi")
    ELSE e

pubmed_clean_entry(e) ==
    LET e1 == IF "author" \in DOMAIN e
              THEN [e EXCEPT !["author"] = replace(e["author"], SemiSpace, AndSep)]
              ELSE e
        e2 == pubmed_clean_doi(e1)
    IN IF "year" \in DOMAIN e2
       THEN [e2 EXCEPT !["year"] = Slice(e2["year"], 0, YearLen)]
       ELSE e2

\* The mutant: the two venue fields swapped
clean_venue_swapped(e) ==
    IF e["ENTRYTYPE"] = article THEN DictPop(e, "journal") ELSE DictPop(e, "booktitle")

\* The universal rule at the head of clean_entry: only one publication title
clean_venue(e) ==
    IF e["ENTRYTYPE"] = article THEN DictPop(e, "booktitle") ELSE DictPop(e, "journal")

clean_entry(e, d) ==
    IF "ENTRYTYPE" \notin DOMAIN e THEN Raise("KeyError")
    ELSE LET e1 == clean_venue(e)
         IN CASE d = "ieee" -> Ok(ieee_clean_entry(e1))
              [] d = "scopus" -> Ok(scopus_clean_entry(e1))
              [] d = "pubmed" -> Ok(pubmed_clean_entry(e1))
              [] OTHER -> Raise("ValueError")

-----------------------------------------------------------------------------
(* Preprocessing *)

Range(seq) == {seq[k] : k \in 1..Len(seq)}

\* list(found_pts)[0] is any element of the set: the outcomes are one per element
pubmed_preprocess(e, semmap) ==
    IF "ENTRYTYPE" \notin DOMAIN semmap \/ PT \notin DOMAIN e
    THEN {Raise("KeyError")}
    ELSE LET candidate_pts == DOMAIN semmap["ENTRYTYPE"]
             all_pts == split(e[PT], SemiSpace)
             found_pts == candidate_pts \cap Range(all_pts)
         IN IF found_pts # {}
            THEN {Ok(DictSet(e, PT, p)) : p \in found_pts}
            ELSE {Ok(DictSet(e, PT, JournalArticle))}

preprocess_entry(e, d, semmap) ==
    IF d \in {"ieee", "scopus"} THEN {Ok(e)}
    ELSE IF d = "pubmed" THEN pubmed_preprocess(e, semmap)
    ELSE {Ok(None)}

-----------------------------------------------------------------------------
(* The reader's __next__ *)

\* for line in self.file: lines are consumed up to and including the first blank one
RECURSIVE ris_scan(_, _, _)
ris_scan(lines, pos, read_lines) ==
    IF pos >= Len(lines) THEN [eof |-> TRUE, read_lines |-> read_lines, pos |-> pos]
    ELSE IF strip(lines[pos + 1]) = <<>>
    THEN [eof |-> FALSE, read_lines |-> read_lines, pos |-> pos + 1]
    ELSE ris_scan(lines, pos + 1, Append(read_lines, lines[pos + 1]))

\* RISFileReader.__next__: StopIteration, or the outcome of ris_to_dict
ris_next(lines, pos) ==
    LET s == ris_scan(lines, pos, <<>>)
    IN IF s.eof /\ Len(s.read_lines) = 0
       THEN [stop |-> TRUE, res |-> Ok(EmptyDict), pos |-> s.pos]
       ELSE [stop |-> FALSE, res |-> ris_to_dict(s.read_lines), pos |-> s.pos]

\* csv.DictReader.__next__: the next row, or StopIteration
csv_next(rows, pos) ==
    IF pos >= Len(rows)
    THEN [stop |-> TRUE, res |-> Ok(EmptyDict), pos |-> pos]
    ELSE [stop |-> FALSE, res |-> Ok(rows[pos + 1]), pos |-> pos + 1]

reader_next(d, f, pos) == IF d = "pubmed" THEN ris_next(f, pos) ELSE csv_next(f, pos)

\* The mutant: an entry left without a venue field is not appended
database_append_drops(db, e) ==
    IF "journal" \in DOMAIN e \/ "booktitle" \in DOMAIN e THEN Append(db, e) ELSE db

\* database.entries.append(entry)
database_append(db, e) == Append(db, e)

-----------------------------------------------------------------------------
(* The inputs of a run *)

SeqsUpTo(S, n) == UNION {[1..k -> S] : k \in 0..n}

RisLine(tag, value) == tag \o <<"-", " ">> \o value \o <<"\n">>

Book == <<"B","o","o","k">>
book == <<"b","o","o","k">>
Bogus == <<"B","o","g","u","s">>
JT == <<"J", "T">>
AID == <<"A", "I", "D">>
TagPT == <<"P", "T", " ", " ">>
TagJT == <<"J", "T", " ", " ">>
TagAID == <<"A", "I", "D", " ">>
Blank == <<"\n">>
Continued == <<" "," "," "," "," "," ","c","o","n","t","i","n","u","e","d","\n">>
Nature == <<"N","a","t","u","r","e">>
Pmid == <<"1","2","3","4","5">>

FileLines ==
    {RisLine(TagPT, JournalArticle), RisLine(TagPT, Book), RisLine(TagJT, Nature),
     RisLine(TagAID, Pmid), Continued, Blank}

RisFiles == SeqsUpTo(FileLines, MaxLines)

CsvRow(pt, jt) == [k \in {PT, JT, AID} |-> IF k = PT THEN pt ELSE IF k = JT THEN jt ELSE Pmid]

CsvRows == {CsvRow(pt, jt) : pt \in {JournalArticle, Book, Bogus, <<>>}, jt \in {Nature, <<>>}}

CsvFiles == SeqsUpTo(CsvRows, MaxRows)

\* Two contents of syntax_mapping.yaml[dialect]: the second maps a source field to ID
SyntaxBase ==
    << << <<PT, "ENTRYTYPE">> >>, << <<JT, "journal">> >>, << <<JT, "booktitle">> >> >>

SyntaxMaps == {SyntaxBase, SyntaxBase \o << << <<AID, "ID">> >> >>}

\* Two contents of semantic_mapping.yaml[dialect]: the second has a vocabulary for ID
EntryTypes == [v \in {JournalArticle, Book} |-> IF v = Book THEN book ELSE article]

SemanticMaps ==
    {[k \in {"ENTRYTYPE"} |-> EntryTypes],
     [k \in {"ENTRYTYPE", "ID"} |->
         IF k = "ENTRYTYPE" THEN EntryTypes
         ELSE [v \in {entry_id(d, 0) : d \in {"ieee", "scopus", "pubmed"}} |-> Pmid]]}

Dialects == {"ieee", "scopus", "pubmed"}

-----------------------------------------------------------------------------
(* A conversion run: __main__, convert_csv / convert_ris, transform *)

Idle == <<>>

Init ==
    /\ pc = "main"
    /\ dialect \in Dialects
    /\ exists \in BOOLEAN
    /\ syntax_yaml \in SyntaxMaps
    /\ semantic_yaml \in SemanticMaps
    /\ file \in IF ~exists THEN {<<>>}
                ELSE IF dialect = "pubmed" THEN RisFiles ELSE CsvFiles
    /\ fpos = 0
    /\ count = 0
    /\ i = 0
    /\ entry = EmptyDict
    /\ database = <<>>
    /\ bibfile = "untouched"
    /\ written = <<>>
    /\ error = "none"
    /\ input = Idle
    /\ output = Idle

Running == error = "none"

\* The mutant: the entries converted so far are written out when an exception ends the run
Propagate_flushes(e) ==
    /\ error' = e
    /\ bibfile' = "written"
    /\ written' = database
    /\ UNCHANGED <<pc, dialect, exists, syntax_yaml, semantic_yaml, file, fpos, count, i,
                   entry, database, input, output>>

\* An exception leaves transform and convert_*: the run ends where it was raised
Propagate(e) ==
    /\ error' = e
    /\ UNCHANGED <<pc, dialect, exists, syntax_yaml, semantic_yaml, file, fpos, count, i,
                   entry, database, bibfile, written, input, output>>

\* __main__: the existence check, then convert_csv or convert_ris opens the input
Main ==
    /\ pc = "main" /\ Running
    /\ pc' = IF exists THEN "next" ELSE "exit1"
    /\ UNCHANGED <<dialect, exists, syntax_yaml, semantic_yaml, file, fpos, count, i, entry,
                   database, bibfile, written, error, input, output>>

\* for i, row in enumerate(entries): the next record, or the end of the loop
NextRecord ==
    /\ pc = "next" /\ Running
    /\ LET r == reader_next(dialect, file, fpos)
       IN IF r.stop
          THEN /\ pc' = "write"
               /\ UNCHANGED <<fpos, count, i, entry, error>>
          ELSE IF r.res.err # "none"
          THEN /\ error' = r.res.err
               /\ fpos' = r.pos
               /\ UNCHANGED <<pc, count, i, entry>>
          ELSE /\ pc' = "preprocess"
               /\ fpos' = r.pos
               /\ i' = count
               /\ count' = count + 1
               /\ entry' = r.res.val
               /\ UNCHANGED error
    /\ UNCHANGED <<dialect, exists, syntax_yaml, semantic_yaml, file, database, bibfile,
                   written, input, output>>

\* A stage of the loop body: its outcome becomes the entry, or its exception ends the run
Stage(from, to, outcomes) ==
    /\ pc = from /\ Running
    /\ \E r \in outcomes :
          IF r.err # "none" THEN Propagate(r.err)
          ELSE /\ entry' = r.val
               /\ pc' = to
               /\ UNCHANGED <<dialect, exists, syntax_yaml, semantic_yaml, file, fpos, count,
                              i, database, bibfile, written, error, input, output>>

Preprocess == Stage("preprocess", "schema_map", preprocess_entry(entry, dialect, semantic_yaml))

SchemaMap == Stage("schema_map", "semantic_map", {Ok(schema_map(i, entry, dialect, syntax_yaml))})

SemanticMap == Stage("semantic_map", "clean_entry", {semantic_map(entry, semantic_yaml)})

CleanEntry == Stage("clean_entry", "append", {clean_entry(entry, dialect)})

AppendEntry ==
    /\ pc = "append" /\ Running
    /\ database' = database_append(database, entry)
    /\ pc' = "next"
    /\ UNCHANGED <<dialect, exists, syntax_yaml, semantic_yaml, file, fpos, count, i, entry,
                   bibfile, written, error, input, output>>

\* with open(bibfile, "w") as file: file.write(writer.write(database))
Write ==
    /\ pc = "write" /\ Running
    /\ bibfile' = "written"
    /\ written' = database
    /\ pc' = "done"
    /\ UNCHANGED <<dialect, exists, syntax_yaml, semantic_yaml, file, fpos, count, i, entry,
                   database, error, input, output>>

Next ==
    \/ Main
    \/ NextRecord
    \/ Preprocess
    \/ SchemaMap
    \/ SemanticMap
    \/ CleanEntry
    \/ AppendEntry
    \/ Write

Spec == Init /\ [][Next]_vars

-----------------------------------------------------------------------------
(* Properties of a run *)

IsBlank(line) == strip(line) = <<>>

\* The blank-line-separated groups of lines of a RIS text
NumGroups(lines) ==
    Cardinality({k \in 1..Len(lines) :
                    ~IsBlank(lines[k]) /\ (k = 1 \/ IsBlank(lines[k - 1]))})

InputRecords == IF dialect = "pubmed" THEN NumGroups(file) ELSE Len(file)

\* C1: when a run completes, the database transform returned (and that was written) has
\* as many entries as the input has records: the rows of the CSV file, or the
\* blank-line-separated groups of lines of the RIS file, all of them delivered by the reader.
C1_RecordCount ==
    pc = "done" =>
        /\ Len(database) = InputRecords
        /\ count = InputRecords
        /\ written = database

C1_Witness ==
    /\ pc = "done" /\ dialect = "pubmed" /\ Len(database) = 2
    /\ \E k \in 1..Len(database) : DOMAIN database[k] \cap {"journal", "booktitle"} = {}

\* "{dialect}_{n}"
ExpectedId(n) == DialectName(dialect) \o <<"_">> \o str(n)

IdsInOrder == \A k \in 1..Len(database) : database[k]["ID"] = ExpectedId(k - 1)

IdIsReserved ==
    /\ \A k \in 1..Len(rules_of(syntax_yaml)) : rules_of(syntax_yaml)[k][2] # "ID"
    /\ "ID" \notin DOMAIN semantic_yaml

\* C2 as stated: whatever the syntax map and the rows contain, the entry at position i of
\* the database has ID "{dialect}_{i}" (read in the claim's favour: under a semantic map
\* that has no vocabulary for ID).
C2_Original == "ID" \notin DOMAIN semantic_yaml => IdsInOrder

\* C2 as amended: provided no rule of the syntax map has ID as its canonical key and the
\* semantic map has no vocabulary for ID, the entry at position i of the database has ID
\* "{dialect}_{i}", so the IDs have no gaps and no duplicates.
C2_IdsInOrder ==
    IdIsReserved =>
        /\ IdsInOrder
        /\ \A k, m \in 1..Len(database) : k # m => database[k]["ID"] # database[m]["ID"]

C2_Witness == IdIsReserved /\ Len(database) = 2 /\ pc = "done"

\* The entries clean_entry has returned: those of the database and the one about to be appended
Cleaned == Range(database) \cup (IF pc = "append" THEN {entry} ELSE {})

VenueRule(e) ==
    /\ e["ENTRYTYPE"] = article => "booktitle" \notin DOMAIN e
    /\ e["ENTRYTYPE"] # article => "journal" \notin DOMAIN e

\* C3 as stated: after clean_entry an article has no booktitle, any other entry has no
\* journal, and exactly one venue field survives.
C3_Original ==
    \A e \in Cleaned :
        VenueRule(e) /\ Cardinality(DOMAIN e \cap {"journal", "booktitle"}) = 1

\* C3 as amended: after clean_entry an article has no booktitle, any other entry has no
\* journal, and at most one venue field survives (none when the entry had no venue field
\* of its type).
C3_VenueRule ==
    \A e \in Cleaned :
        VenueRule(e) /\ Cardinality(DOMAIN e \cap {"journal", "booktitle"}) <= 1

C3_Witness ==
    /\ \E e \in Cleaned : e["ENTRYTYPE"] = article /\ "journal" \in DOMAIN e
    /\ \E e \in Cleaned : e["ENTRYTYPE"] # article /\ "booktitle" \in DOMAIN e

\* C5: the RIS reader never yields an empty record: a blank line met while no lines are
\* pending ends the sequence.
C5_NeverEmptyRecord ==
    (dialect = "pubmed" /\ pc = "preprocess") => entry # EmptyDict

\* C7: the semantic-map stage replaces the value of every entry key the semantic map has
\* by semanticMap[key][value] and leaves the other keys alone; when some value is not in
\* the map the run ends there with a KeyError, the entry is not appended, nothing is
\* substituted, and no later step is taken.
C7_SemanticMap ==
    [][/\ (pc = "semantic_map" /\ error = "none") =>
            LET keys == DOMAIN entry \cap DOMAIN semantic_yaml
            IN IF \A k \in keys : entry[k] \in DOMAIN semantic_yaml[k]
               THEN /\ pc' = "clean_entry" /\ error' = "none"
                    /\ DOMAIN entry' = DOMAIN entry
                    /\ \A k \in DOMAIN entry :
                          entry'[k] = IF k \in keys THEN semantic_yaml[k][entry[k]] ELSE entry[k]
               ELSE /\ error' = "KeyError" /\ pc' = pc
                    /\ entry' = entry /\ database' = database /\ bibfile' = bibfile
       /\ error # "none" => UNCHANGED vars]_vars

C7_Witness ==
    /\ pc = "semantic_map" /\ error = "KeyError" /\ Len(database) = 1
    /\ entry["ENTRYTYPE"] \notin DOMAIN semantic_yaml["ENTRYTYPE"]

\* C8: the output file is written only by a run whose input exists and whose every record
\* has passed all stages; a run that ends on a missing input or on an exception leaves the
\* output file untouched.
C8_AllOrNothing ==
    /\ bibfile = "untouched" => written = <<>>
    /\ bibfile # "untouched" =>
          /\ exists /\ error = "none" /\ pc = "done"
          /\ fpos = Len(file) /\ written = database /\ Len(database) = count
    /\ (error # "none" \/ pc = "exit1") => bibfile = "untouched"

C8_Witness == error # "none" /\ Len(database) >= 1 /\ bibfile = "untouched"

-----------------------------------------------------------------------------
(* The functions applied on their own: the input is drawn in the initial state, *)
(* the one action applies the function.                                         *)

InitCall(inputs) ==
    /\ pc = "call"
    /\ input \in inputs
    /\ output = Idle
    /\ dialect = "none" /\ exists = FALSE /\ syntax_yaml = <<>> /\ semantic_yaml = EmptyDict
    /\ file = <<>> /\ fpos = 0 /\ count = 0 /\ i = 0 /\ entry = EmptyDict
    /\ database = <<>> /\ bibfile = "untouched" /\ written = <<>> /\ error = "none"

Return(result) ==
    /\ pc = "call"
    /\ output' = result
    /\ pc' = "return"
    /\ UNCHANGED <<dialect, exists, syntax_yaml, semantic_yaml, file, fpos, count, i, entry,
                   database, bibfile, written, error, input>>

Max(S) == CHOOSE x \in S : \A y \in S : y <= x

(* ris_to_dict *)

TagAU == <<"A", "U", " ", " ">>
TagTI == <<"T", "I", " ", " ">>
AU == <<"A", "U">>
TI == <<"T", "I">>
SmithJ == <<"S","m","i","t","h",","," ","J",".">>
Doe == <<"D","o","e">>
Title == <<"T","i","t","l","e">>
More == <<" "," "," "," "," "," ","m","o","r","e","\n">>

RecordLines ==
    {RisLine(TagAU, SmithJ), RisLine(TagAU, Doe), RisLine(TagTI, Title), Continued, More}

InitRis == InitCall(SeqsUpTo(RecordLines, MaxRisLines))

Call_ris_to_dict == Return(ris_to_dict(input))

NextRis == Call_ris_to_dict

SpecRis == InitRis /\ [][NextRis]_vars

KeyOf(line) == strip(Slice(line, 0, KeyEnd))
ValueOf(line) == strip(SliceFrom(line, ValueStart))

\* The continuation lines that follow a keyed line, each after a single space
RECURSIVE Continuation(_, _)
Continuation(lines, m) ==
    IF m > Len(lines) \/ KeyOf(lines[m]) # <<>> THEN <<>>
    ELSE <<" ">> \o ValueOf(lines[m]) \o Continuation(lines, m + 1)

\* The values of the keyed lines of one key, in order, each with its continuation lines
RECURSIVE FieldsOf(_, _, _)
FieldsOf(lines, key, m) ==
    IF m > Len(lines) THEN <<>>
    ELSE IF KeyOf(lines[m]) = key
    THEN <<ValueOf(lines[m]) \o Continuation(lines, m + 1)>> \o FieldsOf(lines, key, m + 1)
    ELSE FieldsOf(lines, key, m + 1)

Expected(lines) ==
    [key \in {KeyOf(lines[m]) : m \in 1..Len(lines)} \ {<<>>} |->
        join(SemiSpace, FieldsOf(lines, key, 1))]

\* C6 as stated: for every list of lines ris_to_dict returns the record in which each
\* key has the values of its keyed lines, in order, joined by "; ", every continuation
\* line being appended after a single space to the most recent keyed field.
C6_Original == pc = "return" => output = Ok(Expected(input))

\* C6 as amended: so it is for every list of lines that does not begin with a continuation
\* line; on a list whose first line has an empty key portion there is no previous field,
\* and ris_to_dict raises a KeyError.
C6_RisToDict ==
    pc = "return" =>
        IF input = <<>> \/ KeyOf(input[1]) # <<>>
        THEN output = Ok(Expected(input))
        ELSE output = Raise("KeyError")

C6_Witness ==
    /\ pc = "return"
    /\ input = <<RisLine(TagAU, SmithJ), Continued, RisLine(TagAU, Doe)>>
    /\ output.err = "none"
    /\ output.val[AU] = SmithJ \o <<" ","c","o","n","t","i","n","u","e","d",";"," ">> \o Doe

(* scopus_clean_entry and scopus_author_canonicalize *)

\* An author is a last name with initials, or a last name alone
Authors == {SmithJ, <<"D","o","e",","," ","A",".">>, <<"S","m","i","t","h">>, Doe}

AuthorValues ==
    {join(<<",", " ">>, a) : a \in SeqsUpTo(Authors, MaxAuthors) \ {<<>>}} \cup {NoAuthor}

InitAuthor == InitCall({[k \in {"author"} |-> a] : a \in AuthorValues})

Call_scopus_clean_entry == Return(scopus_clean_entry(input))

NextAuthor == Call_scopus_clean_entry

SpecAuthor == InitAuthor /\ [][NextAuthor]_vars

\* The authors of a list of tokens when no token is lost: a token followed by one with a
\* period makes a pair, any other token is an author alone
RECURSIVE AllNames(_)
AllNames(tokens) ==
    IF tokens = <<>> THEN <<>>
    ELSE IF Len(tokens) >= 2 /\ contains(tokens[2], ".")
    THEN <<strip(tokens[1]) \o <<",", " ">> \o strip(tokens[2])>> \o AllNames(Tail(Tail(tokens)))
    ELSE <<strip(tokens[1])>> \o AllNames(Tail(tokens))

\* C4: the Scopus author value is split on commas and consecutive tokens are paired as
\* (last, first), a token whose successor has no period being an author alone; no token is
\* lost, a trailing last-name-only token is an author of its own, and "Smith, J., Doe"
\* gives "Smith, J. and Doe".
C4_NoTokenLost ==
    (pc = "return" /\ input["author"] # NoAuthor) =>
        /\ "author" \in DOMAIN output
        /\ output["author"] = join(AndSep, AllNames(split(input["author"], <<",">>)))

(* pubmed_clean_entry *)

DoiIds ==
    {Pmid \o <<" ","[","p","m","i","d","]">>,
     <<"1","0",".","1","0","0","0","/","x","y","z"," ","[","d","o","i","]">>,
     <<"1","0",".","2","/","b"," ","[","d","o","i","]">>,
     DoiTag}

Doi1000 == <<"1","0",".","1","0","0","0","/","x","y","z">>

DoiValues == {join(SemiSpace, t) : t \in SeqsUpTo(DoiIds, MaxIds) \ {<<>>}}

InitDoi == InitCall({[k \in {"doi"} |-> v] : v \in DoiValues})

Call_pubmed_clean_entry == Return(pubmed_clean_entry(input))

NextDoi == Call_pubmed_clean_entry

SpecDoi == InitDoi /\ [][NextDoi]_vars

DoiTokens == split(input["doi"], <<";">>)

\* The tokens that, trimmed, end in "[doi]"
DoiMatches == {m \in 1..Len(DoiTokens) : endswith(strip(DoiTokens[m]), DoiTag)}

\* Such a token with the suffix stripped and the remainder trimmed
DoiOf(m) ==
    LET t == strip(DoiTokens[m]) IN strip(SubSeq(t, 1, Len(t) - Len(DoiTag)))

\* C10 as stated: if some token of the doi field ends in "[doi]" the field becomes such a
\* token without the suffix, trimmed; otherwise the field is dropped.
C10_Original ==
    pc = "return" =>
        IF DoiMatches # {}
        THEN "doi" \in DOMAIN output /\ \E m \in DoiMatches : output["doi"] = DoiOf(m)
        ELSE "doi" \notin DOMAIN output

\* C10 as amended: if some token of the doi field ends in "[doi]" and the last such token
\* is more than the suffix, the field becomes that last token without the suffix, trimmed;
\* if no token ends in "[doi]", or the last that does is the suffix alone, the field is
\* dropped. The field is never left holding the raw identifier list.
C10_DoiExtraction ==
    pc = "return" =>
        IF DoiMatches # {} /\ DoiOf(Max(DoiMatches)) # <<>>
        THEN /\ "doi" \in DOMAIN output
             /\ output["doi"] = DoiOf(Max(DoiMatches))
             /\ output["doi"] # input["doi"]
        ELSE "doi" \notin DOMAIN output

C10_Witness ==
    /\ pc = "return"
    /\ input["doi"] = Pmid \o <<" ","[","p","m","i","d","]",";"," ">> \o Doi1000 \o <<" ">> \o DoiTag
    /\ output["doi"] = Doi1000

(* schema_map *)

RowValues == {<<>>, Nature, Pmid}

SchemaRows == UNION {[keys -> RowValues] : keys \in SUBSET {PT, JT, AID}}

SchemaMaps ==
    {SyntaxBase,
     SyntaxBase \o << << <<AID, "ID">> >> >>,
     << << <<PT, "title">> >>, << <<JT, "title">> >>, << <<AID, "title">> >> >>,
     << << <<JT, "title">>, <<PT, "title">> >>, << <<AID, "doi">> >> >>}

InitSchema ==
    InitCall([i : {0, 12}, row : SchemaRows, dialect : {"ieee"}, syntax_map : SchemaMaps])

Call_schema_map == Return(schema_map(input.i, input.row, input.dialect, input.syntax_map))

NextSchema == Call_schema_map

SpecSchema == InitSchema /\ [][NextSchema]_vars

SchemaRules == rules_of(input.syntax_map)

\* The rules with canonical key bib_key whose source key is in the row with a non-empty value
Hits(bib_key) ==
    {m \in 1..Len(SchemaRules) :
        /\ SchemaRules[m][2] = bib_key
        /\ SchemaRules[m][1] \in DOMAIN input.row
        /\ input.row[SchemaRules[m][1]] # <<>>}

\* C9: schema_map copies row[rawKey] into entry[canonicalKey] only for the rules whose
\* rawKey is in the row with a non-empty value; of several such rules with one canonical
\* key the last in table order gives the value; a canonical key with no such rule is not
\* in the entry (ID keeps its seed); and applying the rules to the result again changes
\* nothing.
C9_SchemaMap ==
    pc = "return" =>
        /\ \A bib_key \in DOMAIN output \cup {SchemaRules[m][2] : m \in 1..Len(SchemaRules)} :
              IF Hits(bib_key) # {}
              THEN /\ bib_key \in DOMAIN output
                   /\ output[bib_key] = input.row[SchemaRules[Max(Hits(bib_key))][1]]
              ELSE IF bib_key = "ID"
              THEN output["ID"] = entry_id(input.dialect, input.i)
              ELSE bib_key \notin DOMAIN output
        /\ "ID" \in DOMAIN output
        /\ apply_rules(output, SchemaRules, input.row) = output

C9_Witness ==
    /\ pc = "return"
    /\ Cardinality(Hits("title")) = 3
    /\ input.row[PT] # input.row[AID]
    /\ output["title"] = input.row[AID]

====
